---- MODULE Spec2Model ----
(***************************************************************************)
(* Scheduling core of TaskBreakdownAgent (src/app.py):                     *)
(*   get_calendar_availability, find_optimal_start_time and                *)
(*   create_calendar_events.                                               *)
(*                                                                         *)
(* Time is counted in minutes from Monday 00:00 of the first week (the     *)
(* spec's scenarios use Monday 2024-03-11), so that weekday(), hour and    *)
(* replace(hour=9, minute=0, ...) are arithmetic on the minute count.      *)
(* An optional value (Optional[datetime]) is <<>> for None and <<t>> for   *)
(* a value t.                                                              *)
(***************************************************************************)
EXTENDS Integers, Sequences, FiniteSets, TLC

\* ------------------------------------------------------------------ bounds
MaxItems == 3
MaxEvents == 2

\* ------------------------------------------------------- program constants
days_ahead == 14
buffer_minutes == 30
WorkStartHour == 9
WorkEndHour == 18
MaxSlots == 20
MinDuration == 30
MinutesPerHour == 60
MinutesPerDay == 1440

\* -------------------------------------------------------- datetime helpers
T(d, h, m) == d * MinutesPerDay + h * MinutesPerHour + m

Day(t) == t \div MinutesPerDay

\* datetime.weekday(): Monday = 0 ... Sunday = 6
Weekday(t) == Day(t) % 7

\* datetime.hour
Hour(t) == (t % MinutesPerDay) \div MinutesPerHour

\* t.replace(hour=h, minute=0, second=0, microsecond=0)
ReplaceHour(t, h) == Day(t) * MinutesPerDay + h * MinutesPerHour

\* t.replace(minute=0, second=0, microsecond=0)
FloorHour(t) == t - (t % MinutesPerHour)

\* while t.weekday() >= 5: t += timedelta(days=1)
RECURSIVE SkipWeekend(_)
SkipWeekend(t) == IF Weekday(t) >= 5 THEN SkipWeekend(t + MinutesPerDay) ELSE t

None == <<>>
Some(t) == <<t>>

\* --------------------------------------------------- calendar read records
\* One event of events().list(): kind says what its start/end fields hold.
\*   "dateTime"   start/end carry a naive date-time; s, e are minute counts
\*   "date"       start/end carry a date only;       s, e are day numbers
\*   "aware"      start/end carry a date-time with a UTC offset
\*   "novalue"    start/end are present but hold neither dateTime nor date
\*   "unparsable" the timestamp text makes date_parser.parse raise
\*   "nokey"      the event has no 'start' (or no 'end') field at all
Event(k, s, e) == [kind |-> k, s |-> s, e |-> e]

\* date_parser.parse of the event's start/end text
ParseStart(ev) == IF ev.kind = "date" THEN ev.s * MinutesPerDay ELSE ev.s
ParseEnd(ev) == IF ev.kind = "date" THEN ev.e * MinutesPerDay ELSE ev.e

\* for event in events: ... busy_periods.append(...)
\* raised: event['start'] / event['end'] raised KeyError, which leaves the
\* loop for the handler of the whole call.
RECURSIVE BusyPeriods(_, _)
BusyPeriods(evs, acc) ==
    IF evs = <<>> THEN [raised |-> FALSE, busy |-> acc]
    ELSE LET ev == Head(evs) IN
         IF ev.kind = "nokey" THEN [raised |-> TRUE, busy |-> acc]
         ELSE IF ev.kind = "novalue" THEN BusyPeriods(Tail(evs), acc)
         ELSE IF ev.kind = "unparsable" THEN BusyPeriods(Tail(evs), acc)
         ELSE BusyPeriods(Tail(evs),
                  Append(acc, [start |-> ParseStart(ev), end |-> ParseEnd(ev),
                               aware |-> ev.kind = "aware"]))

\* Mutation of Overlaps: only a slot that starts inside the busy period
\* counts as a conflict.
OverlapsStartInside(slot_start, slot_end, busy) ==
    slot_start >= busy.start /\ slot_start < busy.end

\* slot_start < busy['end'] and slot_end > busy['start']
Overlaps(slot_start, slot_end, busy) ==
    slot_start < busy.end /\ slot_end > busy.start

\* for busy in busy_periods: if (...): is_available = False; break
\* Comparing the naive slot_start with an offset-aware busy['end'] raises
\* TypeError.
RECURSIVE SlotState(_, _, _)
SlotState(slot_start, slot_end, busy_periods) ==
    IF busy_periods = <<>> THEN "free"
    ELSE LET busy == Head(busy_periods) IN
         IF busy.aware THEN "raise"
         ELSE IF Overlaps(slot_start, slot_end, busy) THEN "busy"
         ELSE SlotState(slot_start, slot_end, Tail(busy_periods))

\* Mutation of WorkEnd: the working day ends one hour later.
WorkEndLate(current_date) == ReplaceHour(current_date, WorkEndHour + 1)

\* work_end = current_date.replace(hour=18, minute=0)
WorkEnd(current_date) == ReplaceHour(current_date, WorkEndHour)

\* work_start = current_date.replace(hour=9, minute=0)
WorkStart(current_date) == ReplaceHour(current_date, WorkStartHour)

\* while slot_start < work_end: ... slot_start += timedelta(hours=1)
RECURSIVE HourLoop(_, _, _, _)
HourLoop(slot_start, work_end, busy_periods, acc) ==
    IF acc.raised \/ ~(slot_start < work_end) THEN acc
    ELSE LET slot_end == slot_start + MinutesPerHour
             st == SlotState(slot_start, slot_end, busy_periods)
         IN HourLoop(slot_start + MinutesPerHour, work_end, busy_periods,
                IF st = "raise" THEN [acc EXCEPT !.raised = TRUE]
                ELSE IF st = "free"
                     THEN [acc EXCEPT !.slots =
                              Append(@, [start |-> slot_start, end |-> slot_end])]
                     ELSE acc)

\* while current_date.date() <= end_date.date(): ...
RECURSIVE DayLoop(_, _, _, _)
DayLoop(current_date, end_date, busy_periods, acc) ==
    IF acc.raised \/ ~(Day(current_date) <= Day(end_date)) THEN acc
    ELSE IF Weekday(current_date) >= 5
         THEN DayLoop(ReplaceHour(current_date + MinutesPerDay, WorkStartHour),
                      end_date, busy_periods, acc)
         ELSE DayLoop(ReplaceHour(current_date + MinutesPerDay, WorkStartHour),
                      end_date, busy_periods,
                      HourLoop(WorkStart(current_date), WorkEnd(current_date),
                               busy_periods, acc))

\* available_slots[:20]
FirstSlots(slots) ==
    IF Len(slots) > MaxSlots THEN SubSeq(slots, 1, MaxSlots) ELSE slots

\* get_calendar_availability(start_date): service is self.calendar_service,
\* fails says that events().list().execute() raises, evs is what it returns.
\* Result: the returned slot list, and the busy periods built on the way.
get_calendar_availability(service, fails, evs, start_date) ==
    IF ~service THEN [slots |-> <<>>, busy |-> <<>>, error |-> FALSE]
    ELSE IF fails THEN [slots |-> <<>>, busy |-> <<>>, error |-> TRUE]
    ELSE LET end_date == start_date + days_ahead * MinutesPerDay
             bp == BusyPeriods(evs, <<>>)
         IN IF bp.raised THEN [slots |-> <<>>, busy |-> bp.busy, error |-> TRUE]
            ELSE LET r == DayLoop(ReplaceHour(start_date, WorkStartHour), end_date,
                                  bp.busy, [raised |-> FALSE, slots |-> <<>>])
                 IN IF r.raised
                    THEN [slots |-> <<>>, busy |-> bp.busy, error |-> TRUE]
                    ELSE [slots |-> FirstSlots(r.slots), busy |-> bp.busy,
                          error |-> FALSE]

\* ------------------------------------------------ find_optimal_start_time
\* search_start: next business day 09:00 without a deadline, now + 1 hour
\* floored to the hour with one.
SearchStart(now, deadline) ==
    IF deadline = None
    THEN SkipWeekend(ReplaceHour(now + MinutesPerDay, WorkStartHour))
    ELSE FloorHour(now + MinutesPerHour)

\* Mutation of Fallback: the next day at 9 AM, weekend or not.
FallbackAnyDay(now) == ReplaceHour(now + MinutesPerDay, WorkStartHour)

\* Fallback: schedule for next business day at 9 AM
Fallback(now) == SkipWeekend(ReplaceHour(now + MinutesPerDay, WorkStartHour))

\* potential_end = slot['start'] + timedelta(hours=total_duration_minutes / 60)
\* The float quotient times one hour is rounded by timedelta to the
\* microsecond, which gives back the whole number of minutes exactly.
PotentialEnd(slot, total_duration_minutes) ==
    slot.start + total_duration_minutes

\* Mutation of DeadlineScan: the latest slot that still meets the deadline.
RECURSIVE DeadlineScanLatest(_, _, _, _)
DeadlineScanLatest(slots, k, total_duration_minutes, deadline_t) ==
    IF k > Len(slots) THEN 0
    ELSE LET later == DeadlineScanLatest(slots, k + 1, total_duration_minutes,
                                         deadline_t)
         IN IF later # 0 THEN later
            ELSE IF PotentialEnd(slots[k], total_duration_minutes) <= deadline_t
                 THEN k ELSE 0

\* Mutation of DeadlineScan: the scan starts at the slot after the first.
RECURSIVE DeadlineScanFromSecond(_, _, _, _)
DeadlineScanFromSecond(slots, k, total_duration_minutes, deadline_t) ==
    IF k + 1 > Len(slots) THEN 0
    ELSE IF PotentialEnd(slots[k + 1], total_duration_minutes) <= deadline_t
         THEN k + 1
         ELSE DeadlineScanFromSecond(slots, k + 1, total_duration_minutes,
                                     deadline_t)

\* for slot in available_slots: if potential_end <= deadline: return slot['start']
\* The index of the slot returned by the scan, 0 when the scan falls through.
RECURSIVE DeadlineScan(_, _, _, _)
DeadlineScan(slots, k, total_duration_minutes, deadline_t) ==
    IF k > Len(slots) THEN 0
    ELSE IF PotentialEnd(slots[k], total_duration_minutes) <= deadline_t THEN k
    ELSE DeadlineScan(slots, k + 1, total_duration_minutes, deadline_t)

\* Mutation of EarliestSlot: the last slot of the list.
EarliestSlotLast(slots) == slots[Len(slots)].start

\* Return the earliest available slot: available_slots[0]['start']
EarliestSlot(slots) == slots[1].start

\* find_optimal_start_time(deadline, total_duration_minutes), with the clock
\* reading (now) and the calendar read (service, fails, evs) as inputs.
find_optimal_start_time(now, deadline, total_duration_minutes, service, fails, evs) ==
    LET search_start == SearchStart(now, deadline)
        av == get_calendar_availability(service, fails, evs, search_start)
        slots == av.slots
    IN IF slots = <<>>
       THEN [start |-> Fallback(now), warning |-> FALSE, av |-> av,
             search_start |-> search_start]
       ELSE IF deadline # None
            THEN LET k == DeadlineScan(slots, 1, total_duration_minutes, deadline[1])
                 IN IF k # 0
                    THEN [start |-> slots[k].start, warning |-> FALSE, av |-> av,
                          search_start |-> search_start]
                    ELSE [start |-> EarliestSlot(slots), warning |-> TRUE, av |-> av,
                          search_start |-> search_start]
            ELSE [start |-> EarliestSlot(slots), warning |-> FALSE, av |-> av,
                  search_start |-> search_start]

\* ------------------------------------------------- create_calendar_events
\* Schedule next task with buffer time (the success path of the insert).
NextStart(current_time, duration_minutes) ==
    LET next_start == current_time + duration_minutes + buffer_minutes IN
    IF Hour(next_start) >= WorkEndHour \/ Hour(next_start) < WorkStartHour
    THEN LET at9 == ReplaceHour(next_start, WorkStartHour)
             moved == IF Hour(at9) >= WorkEndHour THEN at9 + MinutesPerDay ELSE at9
         IN SkipWeekend(moved)
    ELSE next_start

\* Still advance time even if event creation failed
NextStartAfterError(current_time, duration_minutes) ==
    current_time + duration_minutes + buffer_minutes

\* total_estimated_time as break_down_task computes it
RECURSIVE TotalEstimatedTime(_)
TotalEstimatedTime(durs) ==
    IF durs = <<>> THEN 0
    ELSE (IF Head(durs) >= MinDuration THEN Head(durs) ELSE 0)
         + TotalEstimatedTime(Tail(durs))

\* --------------------------------------------------------- sampled inputs
Nows == {T(0, 8, 30), T(0, 16, 20), T(4, 17, 10), T(5, 10, 0)}
Deadlines == {None, Some(T(0, 12, 0)), Some(T(1, 12, 0)), Some(T(8, 18, 0))}
Totals == {0, 60, 180}
StartDates == {T(0, 9, 0), T(0, 17, 0), T(3, 14, 30), T(4, 17, 0),
               T(4, 23, 0), T(5, 10, 0)}
Durations == {20, 45, 60, 90}
EventSamples ==
    { Event("dateTime", T(0, 9, 0), T(0, 10, 0)),
      Event("dateTime", T(0, 9, 30), T(0, 16, 30)),
      Event("date", 1, 2),
      Event("aware", T(0, 11, 0), T(0, 12, 0)),
      Event("novalue", 0, 0),
      Event("unparsable", 0, 0),
      Event("nokey", 0, 0) }

SeqsUpTo(S, n) == UNION {[1..k -> S] : k \in 0..n}
EventLists == SeqsUpTo(EventSamples, MaxEvents)
SubtaskLists == SeqsUpTo(Durations, MaxItems)
NestedNows == {T(0, 8, 30), T(4, 17, 10)}
NestedDeadlines == {None, Some(T(1, 12, 0))}
NestedEventLists == SeqsUpTo(EventSamples, 1)

\* ------------------------------------------------------------------ state
VARIABLES
    calendar_service,   \* self.calendar_service is set (TRUE) or None (FALSE)
    pc,                 \* "idle", "loop" (inside the for loop), "done"
    op,                 \* the method called: "none", "gca", "fost", "cce"
    now,                \* datetime.now() read by find_optimal_start_time
    deadline,           \* deadline argument (Optional)
    total_duration,     \* total_duration_minutes argument
    events,             \* the items of the calendar read
    read_fails,         \* the calendar read raised
    search_start,       \* start_date given to get_calendar_availability
    busy_periods,       \* busy_periods built from the events
    available_slots,    \* list returned by get_calendar_availability
    start_result,       \* value returned by find_optimal_start_time (Optional)
    warning,            \* the "Cannot complete all tasks" warning was printed
    subtasks,           \* estimated_duration of each subtask, in input order
    idx,                \* position of the for loop (1-based)
    current_time,       \* cursor of create_calendar_events
    created_events      \* the list create_calendar_events builds and returns

vars == <<calendar_service, pc, op, now, deadline, total_duration, events,
          read_fails, search_start, busy_periods, available_slots,
          start_result, warning, subtasks, idx, current_time, created_events>>

findVars == <<now, deadline, total_duration, start_result, warning>>
readVars == <<events, read_fails, search_start, busy_periods, available_slots>>
loopVars == <<subtasks, idx, current_time, created_events>>

\* The agent after __init__: the calendar service was built or it was not.
Init ==
    /\ calendar_service \in BOOLEAN
    /\ pc = "idle"
    /\ op = "none"
    /\ now = 0
    /\ deadline = None
    /\ total_duration = 0
    /\ events = <<>>
    /\ read_fails = FALSE
    /\ search_start = 0
    /\ busy_periods = <<>>
    /\ available_slots = <<>>
    /\ start_result = None
    /\ warning = FALSE
    /\ subtasks = <<>>
    /\ idx = 0
    /\ current_time = 0
    /\ created_events = <<>>

\* A call of get_calendar_availability(start_date).
GetCalendarAvailability ==
    /\ pc = "idle"
    /\ \E start_date \in StartDates, evs \in EventLists, fails \in BOOLEAN :
         LET av == get_calendar_availability(calendar_service, fails, evs, start_date)
         IN /\ events' = evs
            /\ read_fails' = fails
            /\ search_start' = start_date
            /\ busy_periods' = av.busy
            /\ available_slots' = av.slots
    /\ pc' = "done"
    /\ op' = "gca"
    /\ UNCHANGED <<calendar_service, findVars, loopVars>>

\* A call of find_optimal_start_time(deadline, total_duration_minutes).
FindOptimalStartTime ==
    /\ pc = "idle"
    /\ \E n \in Nows, dl \in Deadlines, tot \in Totals,
          evs \in EventLists, fails \in BOOLEAN :
         LET r == find_optimal_start_time(n, dl, tot, calendar_service, fails, evs)
         IN /\ now' = n
            /\ deadline' = dl
            /\ total_duration' = tot
            /\ events' = evs
            /\ read_fails' = fails
            /\ search_start' = r.search_start
            /\ busy_periods' = r.av.busy
            /\ available_slots' = r.av.slots
            /\ start_result' = Some(r.start)
            /\ warning' = r.warning
    /\ pc' = "done"
    /\ op' = "fost"
    /\ UNCHANGED <<calendar_service, loopVars>>

\* create_calendar_events returns [] at once: no calendar service, or no
\* subtasks.
CreateReturnsEmpty ==
    /\ pc = "idle"
    /\ \E durs \in SubtaskLists :
         /\ ~calendar_service \/ durs = <<>>
         /\ subtasks' = durs
    /\ created_events' = <<>>
    /\ pc' = "done"
    /\ op' = "cce"
    /\ UNCHANGED <<calendar_service, findVars, readVars, idx, current_time>>

\* create_calendar_events(breakdown, start_date) with a start_date: the
\* cursor starts there.
CreateWithStartDate ==
    /\ pc = "idle"
    /\ calendar_service
    /\ \E durs \in SubtaskLists \ {<<>>}, start_date \in StartDates :
         /\ subtasks' = durs
         /\ current_time' = start_date
    /\ idx' = 1
    /\ created_events' = <<>>
    /\ pc' = "loop"
    /\ op' = "cce"
    /\ UNCHANGED <<calendar_service, findVars, readVars>>

\* create_calendar_events(breakdown) without a start_date: the cursor starts
\* at find_optimal_start_time(deadline, total_estimated_time).
CreateFindsStart ==
    /\ pc = "idle"
    /\ calendar_service
    /\ \E n \in NestedNows, dl \in NestedDeadlines,
          evs \in NestedEventLists, fails \in BOOLEAN :
         \E durs \in SubtaskLists \ {<<>>} :
            LET r == find_optimal_start_time(n, dl, TotalEstimatedTime(durs),
                                             calendar_service, fails, evs)
            IN /\ subtasks' = durs
               /\ current_time' = r.start
               /\ warning' = r.warning
    /\ idx' = 1
    /\ created_events' = <<>>
    /\ pc' = "loop"
    /\ op' = "cce"
    /\ UNCHANGED <<calendar_service, now, deadline, total_duration,
                   start_result, readVars>>

\* if duration_minutes < 30: continue
LoopSkipShort ==
    /\ pc = "loop"
    /\ idx <= Len(subtasks)
    /\ subtasks[idx] < MinDuration
    /\ idx' = idx + 1
    /\ UNCHANGED <<calendar_service, pc, op, findVars, readVars, subtasks,
                   current_time, created_events>>

Record(i, start_time, duration, ok) ==
    [item |-> i, start_time |-> start_time, duration |-> duration, ok |-> ok]

\* events().insert(...).execute() succeeds: the event is recorded and the
\* cursor moves to the next start.
LoopInsertOk ==
    /\ pc = "loop"
    /\ idx <= Len(subtasks)
    /\ subtasks[idx] >= MinDuration
    /\ created_events' =
          Append(created_events, Record(idx, current_time, subtasks[idx], TRUE))
    /\ current_time' = NextStart(current_time, subtasks[idx])
    /\ idx' = idx + 1
    /\ UNCHANGED <<calendar_service, pc, op, findVars, readVars, subtasks>>

\* events().insert(...).execute() raises: an error record is appended and the
\* cursor advances by duration + 30.
LoopInsertFails ==
    /\ pc = "loop"
    /\ idx <= Len(subtasks)
    /\ subtasks[idx] >= MinDuration
    /\ created_events' =
          Append(created_events, Record(idx, current_time, subtasks[idx], FALSE))
    /\ current_time' = NextStartAfterError(current_time, subtasks[idx])
    /\ idx' = idx + 1
    /\ UNCHANGED <<calendar_service, pc, op, findVars, readVars, subtasks>>

\* return created_events
LoopReturn ==
    /\ pc = "loop"
    /\ idx > Len(subtasks)
    /\ pc' = "done"
    /\ UNCHANGED <<calendar_service, op, findVars, readVars, loopVars>>

Next ==
    \/ GetCalendarAvailability
    \/ FindOptimalStartTime
    \/ CreateReturnsEmpty
    \/ CreateWithStartDate
    \/ CreateFindsStart
    \/ LoopSkipShort
    \/ LoopInsertOk
    \/ LoopInsertFails
    \/ LoopReturn

Spec == Init /\ [][Next]_vars

\* ================================================================ claims
PlacementEnd(r) == r.start_time + r.duration

Placed == 1..Len(created_events)

\* The subtasks that are not skipped (duration >= 30), by position.
RECURSIVE Scheduled(_, _)
Scheduled(durs, k) ==
    IF k > Len(durs) THEN <<>>
    ELSE IF durs[k] >= MinDuration THEN <<k>> \o Scheduled(durs, k + 1)
    ELSE Scheduled(durs, k + 1)

CreateDone == op = "cce" /\ pc = "done"
FindDone == op = "fost" /\ pc = "done"
ReadDone == op \in {"gca", "fost"} /\ pc = "done"

\* C1: the placements of one create_calendar_events call are pairwise
\* interval-disjoint and their start times strictly increase in input order.
C1_DisjointAndOrdered ==
    \A j \in Placed : \A k \in Placed :
        j < k =>
            /\ created_events[j].start_time < created_events[k].start_time
            /\ \/ PlacementEnd(created_events[j]) <= created_events[k].start_time
               \/ PlacementEnd(created_events[k]) <= created_events[j].start_time

\* C2: when the cursor advanced by duration + 30 has hour >= 18 the next item
\* is placed at 09:00 of the next working day (a later calendar day); when
\* its hour is < 9, at 09:00 of that day, weekends skipped.  Durations
\* [60, 90, 45] from Monday 17:00 give Mon 17:00, Tue 09:00, Tue 11:00.
C2_RolloverToNextWorkingDay ==
    /\ \A k \in Placed :
          k + 1 \in Placed =>
             LET adv == created_events[k].start_time
                          + created_events[k].duration + buffer_minutes
                 nxt == created_events[k + 1].start_time
             IN /\ Hour(adv) >= WorkEndHour =>
                      /\ nxt = SkipWeekend(ReplaceHour(adv, WorkStartHour)
                                            + MinutesPerDay)
                      /\ Day(nxt) > Day(adv)
                /\ Hour(adv) < WorkStartHour =>
                      nxt = SkipWeekend(ReplaceHour(adv, WorkStartHour))
    /\ ( /\ CreateDone
         /\ subtasks = <<60, 90, 45>>
         /\ Len(created_events) = 3
         /\ created_events[1].start_time = T(0, 17, 0) )
       => /\ created_events[2].start_time = T(1, 9, 0)
          /\ created_events[3].start_time = T(1, 11, 0)

\* The slots that allow completion before the deadline.
Qualifying ==
    IF deadline = None THEN {}
    ELSE {k \in 1..Len(available_slots) :
             available_slots[k].start + total_duration <= deadline[1]}

\* C3: with a deadline and a qualifying candidate, find_optimal_start_time
\* returns the start of the chronologically earliest qualifying slot, and the
\* returned start + total duration <= deadline.
C3_EarliestQualifyingSlot ==
    (FindDone /\ deadline # None /\ Qualifying # {}) =>
        /\ \E k \in Qualifying : start_result = Some(available_slots[k].start)
        /\ \A k \in Qualifying : start_result[1] <= available_slots[k].start
        /\ start_result[1] + total_duration <= deadline[1]

C3_Witness ==
    /\ FindDone /\ deadline # None /\ Qualifying # {}
    /\ busy_periods # <<>>
    /\ Cardinality(Qualifying) > 1
    /\ start_result[1] > search_start

\* C4: with a deadline, a non-empty candidate list and no qualifying
\* candidate, find_optimal_start_time prints the warning and returns the
\* start of the earliest candidate; the call returns normally.
C4_UnreachableDeadline ==
    (op = "fost" /\ deadline # None /\ available_slots # <<>> /\ Qualifying = {}) =>
        /\ pc = "done"
        /\ warning
        /\ start_result = Some(available_slots[1].start)
        /\ \A k \in 1..Len(available_slots) :
              start_result[1] <= available_slots[k].start

C4_Witness ==
    /\ FindDone /\ deadline # None /\ available_slots # <<>> /\ Qualifying = {}
    /\ Len(available_slots) > 1
    /\ warning

\* C5: no returned free slot intersects a busy interval (half-open: touching
\* is not a conflict); with busy [Mon 09:00, Mon 10:00) and a search from
\* Monday the 09:00 slot is left out and the 10:00 slot is returned.
C5_NoSlotOverlapsBusy ==
    /\ \A k \in 1..Len(available_slots) : \A b \in 1..Len(busy_periods) :
          ~( /\ available_slots[k].start < busy_periods[b].end
             /\ available_slots[k].end > busy_periods[b].start )
    /\ ( /\ op = "gca" /\ pc = "done" /\ calendar_service /\ ~read_fails
         /\ events = <<Event("dateTime", T(0, 9, 0), T(0, 10, 0))>>
         /\ Day(search_start) = 0 )
       => /\ available_slots # <<>>
          /\ available_slots[1] = [start |-> T(0, 10, 0), end |-> T(0, 11, 0)]

C5_Witness ==
    /\ op = "gca" /\ pc = "done"
    /\ available_slots # <<>>
    /\ \E b \in 1..Len(busy_periods) :
          /\ busy_periods[b].end = available_slots[1].start
          /\ busy_periods[b].start < busy_periods[b].end

\* C6: every returned free slot starts Monday-Friday with 9 <= hour < 18 and
\* is exactly 60 minutes long.
C6_SlotsInWorkingHours ==
    \A k \in 1..Len(available_slots) :
        /\ Weekday(available_slots[k].start) < 5
        /\ WorkStartHour <= Hour(available_slots[k].start)
        /\ Hour(available_slots[k].start) < WorkEndHour
        /\ available_slots[k].end - available_slots[k].start = 60

C6_Witness ==
    /\ op = "gca" /\ pc = "done"
    /\ Weekday(search_start) >= 5
    /\ Len(available_slots) = MaxSlots
    /\ Hour(available_slots[9].start) = 17
    /\ Day(available_slots[MaxSlots].start) > Day(available_slots[1].start)

\* C7: create_calendar_events returns exactly one record per item with
\* duration >= 30, in input order, whatever inserts fail, and no later item
\* starts at or before the start of an item whose insert failed.
C7_FailedInsertStillAdvances ==
    (CreateDone /\ calendar_service) =>
        /\ Len(created_events) = Len(Scheduled(subtasks, 1))
        /\ \A k \in Placed : created_events[k].item = Scheduled(subtasks, 1)[k]
        /\ \A j \in Placed : \A k \in Placed :
              (j < k /\ ~created_events[j].ok) =>
                  created_events[k].start_time > created_events[j].start_time

\* C8: without a calendar service a run over a non-empty list of items with
\* duration >= 30 still returns one placement per item.
C8_NoServiceStillPlaces ==
    (CreateDone /\ ~calendar_service /\ Scheduled(subtasks, 1) # <<>>) =>
        Len(created_events) = Len(Scheduled(subtasks, 1))

Malformed(ev) == ev.kind \in {"nokey", "novalue", "unparsable"}

RemoveAt(seq, p) == SubSeq(seq, 1, p - 1) \o SubSeq(seq, p + 1, Len(seq))

\* C9: a single malformed event (missing start/end field, missing value,
\* unparsable timestamp) is skipped alone: busy periods and slots equal those
\* of the same event list without the malformed record.
C9_MalformedEventSkipped ==
    (op = "gca" /\ pc = "done" /\ calendar_service /\ ~read_fails) =>
        \A p \in 1..Len(events) :
            ( /\ Malformed(events[p])
              /\ \A q \in 1..Len(events) : q # p => ~Malformed(events[q]) )
            => LET clean == get_calendar_availability(
                               TRUE, FALSE, RemoveAt(events, p), search_start)
               IN /\ available_slots = clean.slots
                  /\ busy_periods = clean.busy

C11_SlotsInsideSearchWindow ==
    FindDone =>
        /\ search_start = SearchStart(now, deadline)
        /\ \A k \in 1..Len(available_slots) :
              /\ search_start <= available_slots[k].start
              /\ available_slots[k].end
                    <= search_start + days_ahead * MinutesPerDay
        /\ start_result[1] >= search_start
        /\ start_result[1] >= now

InWorkingHours(t) ==
    /\ Weekday(t) < 5
    /\ WorkStartHour <= Hour(t)
    /\ Hour(t) < WorkEndHour

\* C12: when the run starts Monday-Friday with hour in [9, 18), every
\* placement of create_calendar_events starts Monday-Friday with
\* 9 <= hour < 18, whatever inserts succeed or fail.  (The cursor is only
\* moved after a placement, so the first placement starts at the start time.)
C12_PlacementsInWorkingHours ==
    (op = "cce" /\ created_events # <<>>
        /\ InWorkingHours(created_events[1].start_time)) =>
        \A k \in Placed : InWorkingHours(created_events[k].start_time)

\* The deadlines (present) a second run could be given.
PresentDeadlines == Deadlines \ {None}

\* C13: whenever the candidate list is non-empty, find_optimal_start_time
\* returns the start of the first candidate, for every deadline and every
\* total duration >= 0; so a run that differs only in the (present) deadline
\* returns the same start.
C13_AlwaysFirstCandidate ==
    /\ (FindDone /\ available_slots # <<>> /\ total_duration >= 0) =>
           start_result = Some(available_slots[1].start)
    /\ (FindDone /\ deadline # None) =>
           \A other \in PresentDeadlines :
               start_result =
                   Some(find_optimal_start_time(now, other, total_duration,
                            calendar_service, read_fails, events).start)

C13_Witness ==
    /\ FindDone /\ deadline # None
    /\ Len(available_slots) > 1
    /\ busy_periods # <<>>
    /\ total_duration > 0
    /\ Qualifying # {}
    /\ Qualifying # 1..Len(available_slots)
    /\ \E other \in PresentDeadlines :
          /\ other # deadline
          /\ find_optimal_start_time(now, other, total_duration,
                 calendar_service, read_fails, events).warning
====
